---- MODULE Spec2Model ----
(***************************************************************************)
(* A model of compute_sic.py: the cloud-mask cleaner, the sea-ice          *)
(* concentration estimator, the driver's mask composition and the          *)
(* water/ice/cloud classifier.                                             *)
(*                                                                         *)
(* A numpy masked array is modelled element by element as a record         *)
(* [data, mask]; mask = TRUE means the entry is invalid.  Real numbers are *)
(* exact rationals <<n, d>> with d > 0.                                    *)
(***************************************************************************)
EXTENDS Integers, FiniteSets, Sequences, TLC

VARIABLES
    pc,         \* the step the run has reached
    cloudmask,  \* the cloud-mask grid as read
    lats,       \* the latitude grid
    cleaned,    \* the cloud mask after clean_up_cloudmask
    recleaned,  \* the cleaner applied to its own output
    px,         \* one pixel of compute_sic's arguments
    sic,        \* that pixel of compute_sic's result
    aux,        \* main's other inputs: vis09, soz, mean_coeffs and the masks
    coeff_indices, \* main's SOZ and coeff_indices grids
    estimate,   \* the field compute_sic returns to main
    field,      \* main's sic after the mask composition
    bands,      \* the swath calc_wic_prob_day_twi reads
    probs,      \* the three probability grids it returns
    angle,      \* one pixel's solar zenith angle
    index       \* the table index the driver and the classifier give it

cleanVars == <<cloudmask, lats, cleaned, recleaned>>

sicVars == <<px, sic>>

mainVars == <<aux, coeff_indices, estimate, field>>

wicVars == <<bands, probs>>

idxVars == <<angle, index>>

vars == <<pc, cleanVars, sicVars, mainVars, wicVars, idxVars>>

None == "none"

(***************************************************************************)
(* Bounds of the model.                                                    *)
(***************************************************************************)
Rows == 2
Cols == 7
MaxHoles == 2
MaxRefl2 == 12
NWic == 2
MaxAngle == 95

(***************************************************************************)
(* Program constants.                                                      *)
(***************************************************************************)
WaterClass == 1
LatLimit == 80
SizeLimit == 10
NotProcessed == 0
WaterThreshold == 3
WaterBand == 2
SozLimit == 89
FullCover == 100
\* numpy's fill value for an invalid float (1e20): a stand-in that is larger
\* than every number of the model
FillValue == 1000000
SOZ_LOWLIM == 0
SOZ_HIGHLIM == 89
LandValue == 200
ReflMax == 100
TbMin == 50
TbMax == 400

(***************************************************************************)
(* The pixel grid.                                                         *)
(***************************************************************************)
Pixels == (1..Rows) \X (1..Cols)

Abs(x) == IF x < 0 THEN -x ELSE x

\* scipy.ndimage.label's default structuring element: the 2-D cross, that is
\* two pixels are neighbours when they share an edge.
Adjacent(p, q) == Abs(p[1] - q[1]) + Abs(p[2] - q[2]) = 1

\* line 59: the sub-mask of water pixels above latitude 80.  A comparison on
\* a masked array is False in the data of a masked entry.
SubMask(cm, lat) ==
    {p \in Pixels : /\ ~cm[p].mask
                    /\ cm[p].data = WaterClass
                    /\ lat[p] > LatLimit}

RECURSIVE Flood(_, _, _)
Flood(done, frontier, M) ==
    IF frontier = {} THEN done
    ELSE LET next == {q \in M \ done : \E f \in frontier : Adjacent(f, q)}
         IN  Flood(done \cup next, next, M)

\* Raster order of the grid, as ndimage.label numbers its objects.
PixelAt(i) == <<((i - 1) \div Cols) + 1, ((i - 1) % Cols) + 1>>

\* line 60: labels, nlabels = ndimage.label(mask).  Background is label 0;
\* objects are numbered 1..nlabels in raster order of their first pixel.
RECURSIVE LabelFrom(_, _, _, _)
LabelFrom(i, lab, n, M) ==
    IF i > Rows * Cols THEN [labels |-> lab, nlabels |-> n]
    ELSE LET p == PixelAt(i)
         IN  IF p \in M /\ lab[p] = 0
             THEN LET obj == Flood({p}, {p}, M)
                  IN  LabelFrom(i + 1,
                                [q \in Pixels |-> IF q \in obj THEN n + 1 ELSE lab[q]],
                                n + 1, M)
             ELSE LabelFrom(i + 1, lab, n, M)

Label(M) == LabelFrom(1, [p \in Pixels |-> 0], 0, M)

\* line 61: sizes = ndimage.sum(mask, labels, range(nlabels + 1))
Sizes(M, lab, n) ==
    [l \in 0..n |-> Cardinality({p \in Pixels : lab[p] = l /\ p \in M})]

\* line 62: mask_sizes = sizes > 10
MaskSizes_AtLeast(size) == size >= SizeLimit

MaskSizes(size) == size > SizeLimit

\* line 66: the result carries the input's mask
OutMask_Dropped(cm, p) == FALSE

OutMask(cm, p) == cm[p].mask

\* lines 59-66
clean_up_cloudmask(cm, lat) ==
    LET M     == SubMask(cm, lat)
        L     == Label(M)
        sizes == Sizes(M, L.labels, L.nlabels)
        remove_pixels == [p \in Pixels |-> MaskSizes(sizes[L.labels[p]])]
    IN  [p \in Pixels |->
            [data |-> IF remove_pixels[p] THEN NotProcessed ELSE cm[p].data,
             mask |-> OutMask(cm, p)]]

(***************************************************************************)
(* Inputs of the cleaner: a grid of water above latitude 80 with up to     *)
(* MaxHoles pixels that are not part of the sub-mask, for one of the three *)
(* reasons the code tests.                                                 *)
(***************************************************************************)
RECURSIVE SubsetsUpTo(_, _)
SubsetsUpTo(S, k) ==
    IF k = 0 THEN {{}}
    ELSE LET prev == SubsetsUpTo(S, k - 1)
         IN  prev \cup {H \cup {p} : H \in prev, p \in S}

WaterPixel == [data |-> 1, mask |-> FALSE, lat |-> 81]

HoleKinds ==
    { [data |-> 4, mask |-> FALSE, lat |-> 85],   \* ice
      [data |-> 1, mask |-> FALSE, lat |-> 80],   \* water, not above 80
      [data |-> 1, mask |-> TRUE,  lat |-> 85] }  \* masked entry holding 1

GridOf(H, hole) ==
    [p \in Pixels |-> IF p \in H THEN hole ELSE WaterPixel]

InitClean ==
    /\ pc = "input"
    /\ \E H \in SubsetsUpTo(Pixels, MaxHoles) :
         \E hole \in HoleKinds :
            LET g == GridOf(H, hole)
            IN  /\ cloudmask = [p \in Pixels |->
                                   [data |-> g[p].data, mask |-> g[p].mask]]
                /\ lats = [p \in Pixels |-> g[p].lat]
    /\ cleaned = None
    /\ recleaned = None
    /\ px = None
    /\ sic = None
    /\ aux = None
    /\ coeff_indices = None
    /\ estimate = None
    /\ field = None
    /\ bands = None
    /\ probs = None
    /\ angle = None
    /\ index = None

\* main, line 237: cloudmask = clean_up_cloudmask(cloudmask, lats)
Clean ==
    /\ pc = "input"
    /\ cleaned' = clean_up_cloudmask(cloudmask, lats)
    /\ pc' = "cleaned"
    /\ UNCHANGED <<cloudmask, lats, recleaned, sicVars, mainVars, wicVars, idxVars>>

\* the cleaner applied to its own output
Reclean ==
    /\ pc = "cleaned"
    /\ recleaned' = clean_up_cloudmask(cleaned, lats)
    /\ pc' = "recleaned"
    /\ UNCHANGED <<cloudmask, lats, cleaned, sicVars, mainVars, wicVars, idxVars>>

NextClean == Clean \/ Reclean

SpecClean == InitClean /\ [][NextClean]_vars

(***************************************************************************)
(* Exact rational arithmetic: <<n, d>> with d > 0.                         *)
(***************************************************************************)
QInt(n) == <<n, 1>>

QLt(a, b) == a[1] * b[2] < b[1] * a[2]

QLe(a, b) == a[1] * b[2] <= b[1] * a[2]

QEq(a, b) == a[1] * b[2] = b[1] * a[2]

RECURSIVE Gcd(_, _)
Gcd(a, b) == IF b = 0 THEN a ELSE Gcd(b, a % b)

QNorm(a) ==
    LET g == Gcd(Abs(a[1]), a[2])
    IN  <<a[1] \div g, a[2] \div g>>

QSub(a, b) == QNorm(<<a[1] * b[2] - b[1] * a[2], a[2] * b[2]>>)

QMul(a, b) == QNorm(<<a[1] * b[1], a[2] * b[2]>>)

\* b is not zero
QDiv(a, b) ==
    IF b[1] > 0 THEN QNorm(<<a[1] * b[2], a[2] * b[1]>>)
    ELSE QNorm(<<-(a[1] * b[2]), a[2] * (-b[1])>>)

(***************************************************************************)
(* numpy.ma, element by element.                                           *)
(***************************************************************************)
\* a non-finite number: the quotient 0/0
NaN == <<0, 0>>

IsNaN(x) == x[2] = 0

\* np.ma.fix_invalid: a non-finite entry becomes masked and its data the
\* fill value
fix_invalid(a) ==
    IF IsNaN(a.data) THEN [data |-> QInt(FillValue), mask |-> TRUE] ELSE a

\* a - b on masked arrays: where either is masked the result is masked and
\* its data is the first operand's
MaSub(a, b) ==
    IF a.mask \/ b.mask THEN [data |-> a.data, mask |-> TRUE]
    ELSE [data |-> QSub(a.data, b.data), mask |-> FALSE]

\* a / b on masked arrays: a zero divisor is masked too
MaDiv(a, b) ==
    IF a.mask \/ b.mask \/ b.data[1] = 0 THEN [data |-> a.data, mask |-> TRUE]
    ELSE [data |-> QDiv(a.data, b.data), mask |-> FALSE]

Plain(x) == [data |-> x, mask |-> FALSE]

(***************************************************************************)
(* compute_sic, one pixel.  p.data is the reflectance, p.cm the cloud-mask *)
(* entry, p.soz the solar zenith angle, p.mean and p.std the gathered row  *)
(* coeffs[coeff_indices] (columns 1 and 2).                                *)
(***************************************************************************)
\* line 96-97
IceMean(p) ==
    fix_invalid([data |-> p.mean, mask |-> p.mean = QInt(0)])

\* line 98-99
IceStdRaw(p) ==
    fix_invalid([data |-> p.std, mask |-> FALSE])

\* line 100: np.where(ice_std >= ice_mean, ice_mean/3, ice_std), on the data
StabilityCorrection(ice_std, ice_mean) ==
    IF QLe(ice_mean.data, ice_std.data)
    THEN MaDiv(ice_mean, Plain(QInt(3))).data
    ELSE ice_std.data

IceStd(p) == StabilityCorrection(IceStdRaw(p), IceMean(p))

\* line 103, at a pixel whose cloud-mask entry is valid
ExclusionMask_NoUndefined(p, ice_std) ==
    \/ p.cm.data = 2
    \/ p.cm.data = 3
    \/ p.cm.data = 0
    \/ p.soz > SozLimit
    \/ /\ QLt(QInt(WaterThreshold), p.data)
       /\ QLt(p.data, QDiv(ice_std, QInt(2)))

ExclusionMask(p, ice_std) ==
    \/ p.cm.data = 2
    \/ p.cm.data = 3
    \/ p.cm.data = 0
    \/ p.cm.data = 5
    \/ p.soz > SozLimit
    \/ /\ QLt(QInt(WaterThreshold), p.data)
       /\ QLt(p.data, QDiv(ice_std, QInt(2)))

\* line 104: the data of (cloudmask == 1) * (data < water_threshold + 2); a
\* masked cloud-mask entry compares False
WaterMask_AnyClass(p) ==
    QLt(p.data, QInt(WaterThreshold + WaterBand))

WaterMask(p) ==
    /\ ~p.cm.mask
    /\ p.cm.data = WaterClass
    /\ QLt(p.data, QInt(WaterThreshold + WaterBand))

\* line 107: the data of 100*data/(ice_mean - ice_std/2)
RawSic_NoHalf(p, ice_mean, ice_std) ==
    MaDiv(Plain(QMul(QInt(100), p.data)),
          MaSub(ice_mean, Plain(ice_std))).data

RawSic(p, ice_mean, ice_std) ==
    MaDiv(Plain(QMul(QInt(100), p.data)),
          MaSub(ice_mean, Plain(QDiv(ice_std, QInt(2))))).data

\* line 108
Clamp_None(v) == v

Clamp(v) == IF QLt(QInt(FullCover), v) THEN QInt(FullCover) ELSE v

\* line 109
ZeroWater_Below(p, v) ==
    IF QLt(p.data, QInt(WaterThreshold)) THEN QInt(0) ELSE v

ZeroWater(p, v) ==
    IF QLe(p.data, QInt(WaterThreshold)) THEN QInt(0) ELSE v

\* line 110
ZeroOverride(p, v) == IF WaterMask(p) THEN QInt(0) ELSE v

\* line 112: mask = cloudmask.mask + mask
FinalMask(p, ice_std) == p.cm.mask \/ ExclusionMask(p, ice_std)

\* lines 96-114
compute_sic(p) ==
    LET ice_mean == IceMean(p)
        ice_std  == IceStd(p)
    IN  [data |-> ZeroOverride(p, ZeroWater(p, Clamp(RawSic(p, ice_mean, ice_std)))),
         mask |-> FinalMask(p, ice_std)]

(***************************************************************************)
(* Inputs of compute_sic.                                                  *)
(***************************************************************************)
\* reflectance in steps of one half, and the two values of the examples
ReflVals == {QNorm(<<k, 2>>) : k \in (-4..MaxRefl2)} \cup {QInt(50), QInt(70)}

CloudClasses == 0..5

SozVals == {45, 89, 90}

MeanVals == {NaN} \cup {QInt(n) : n \in {-6, -2, 0, 6, 60}}

StdVals == {NaN} \cup {QInt(n) : n \in {-4, 0, 2, 6, 30, 60, 90}}

InitSic ==
    /\ pc = "args"
    /\ px \in [data : ReflVals,
               cm   : [data : CloudClasses, mask : BOOLEAN],
               soz  : SozVals,
               mean : MeanVals,
               std  : StdVals]
    /\ sic = None
    /\ cloudmask = None
    /\ lats = None
    /\ cleaned = None
    /\ recleaned = None
    /\ aux = None
    /\ coeff_indices = None
    /\ estimate = None
    /\ field = None
    /\ bands = None
    /\ probs = None
    /\ angle = None
    /\ index = None

\* main, line 238
ComputeSic ==
    /\ pc = "args"
    /\ sic' = compute_sic(px)
    /\ pc' = "sic"
    /\ UNCHANGED <<px, cleanVars, mainVars, wicVars, idxVars>>

NextSic == ComputeSic

SpecSic == InitSic /\ [][NextSic]_vars

(***************************************************************************)
(* main: the driver, on the whole grid.                                    *)
(***************************************************************************)
\* line 234: soz.astype(np.int16) drops the fraction
Trunc(q) == IF q[1] >= 0 THEN q[1] \div q[2] ELSE -((-q[1]) \div q[2])

\* line 235
CoeffIndex(SOZ) == IF SOZ >= SOZ_LOWLIM /\ SOZ <= SOZ_HIGHLIM THEN SOZ ELSE 0

\* line 238: compute_sic(vis09, cloudmask, mean_coeffs, coeff_indices, ..., SOZ),
\* pixel by pixel; coeffs[coeff_indices] gathers each pixel's table row
SicField(a, cm, idx) ==
    [p \in Pixels |->
        compute_sic([data |-> a.vis09[p],
                     cm   |-> cm[p],
                     soz  |-> idx[p].SOZ,
                     mean |-> a.mean_coeffs[idx[p].index].mean,
                     std  |-> a.mean_coeffs[idx[p].index].std])]

\* line 245: np.ma.array(sic, mask = (sic.mask == True) + (extent_mask == False))
ExtentMasked_Replace(v, inside) == [data |-> v.data, mask |-> ~inside]

ExtentMasked(v, inside) == [data |-> v.data, mask |-> v.mask \/ ~inside]

\* lines 176-182, one pixel
apply_mask(mask_array, data_array) ==
    [data |-> IF mask_array THEN QInt(LandValue) ELSE data_array.data,
     mask |-> IF mask_array THEN FALSE ELSE data_array.mask]

(***************************************************************************)
(* Inputs of main.  The cloud mask and latitudes are the cleaner's grids;  *)
(* reflectance and angle vary over the grid, the two masks are drawn from  *)
(* a few shapes, and the table misses its row 0.                           *)
(***************************************************************************)
Vis09Grid ==
    [p \in Pixels |-> IF (p[1] + p[2]) % 2 = 0 THEN QInt(50) ELSE QInt(4)]

SozGrid ==
    [p \in Pixels |-> IF p[2] = 1 THEN QInt(95)
                      ELSE IF p[2] = 2 THEN <<179, 2>>
                      ELSE <<91, 2>>]

MeanCoeffs ==
    [b \in 0..90 |-> IF b = 0 THEN [mean |-> QInt(0), std |-> QInt(0)]
                     ELSE [mean |-> QInt(60), std |-> QInt(6)]]

LandShapes ==
    { {},
      {p \in Pixels : p[2] <= 2},
      {p \in Pixels : p[1] = 1 /\ p[2] % 2 = 0} }

ExtentShapes ==
    { Pixels,
      {p \in Pixels : p[2] > 3} }

InitMain ==
    /\ pc = "read"
    /\ \E H \in SubsetsUpTo(Pixels, MaxHoles) :
         \E hole \in HoleKinds :
            LET g == GridOf(H, hole)
            IN  /\ cloudmask = [p \in Pixels |->
                                   [data |-> g[p].data, mask |-> g[p].mask]]
                /\ lats = [p \in Pixels |-> g[p].lat]
    /\ \E land \in LandShapes, extent \in ExtentShapes :
          aux = [vis09       |-> Vis09Grid,
                 soz         |-> SozGrid,
                 mean_coeffs |-> MeanCoeffs,
                 land_mask   |-> [p \in Pixels |-> p \in land],
                 extent_mask |-> [p \in Pixels |-> p \in extent]]
    /\ coeff_indices = None
    /\ cleaned = None
    /\ estimate = None
    /\ field = None
    /\ bands = None
    /\ probs = None
    /\ angle = None
    /\ index = None
    /\ recleaned = None
    /\ px = None
    /\ sic = None

\* lines 231-235
MainIndices ==
    /\ pc = "read"
    /\ coeff_indices' = [p \in Pixels |->
                            LET SOZ == Trunc(aux.soz[p])
                            IN  [SOZ |-> SOZ, index |-> CoeffIndex(SOZ)]]
    /\ pc' = "indexed"
    /\ UNCHANGED <<cleanVars, sicVars, aux, estimate, field, wicVars, idxVars>>

\* line 237
MainClean ==
    /\ pc = "indexed"
    /\ cleaned' = clean_up_cloudmask(cloudmask, lats)
    /\ pc' = "cleaned_mask"
    /\ UNCHANGED <<cloudmask, lats, recleaned, sicVars, mainVars, wicVars, idxVars>>

\* line 238
MainComputeSic ==
    /\ pc = "cleaned_mask"
    /\ estimate' = SicField(aux, cleaned, coeff_indices)
    /\ field' = estimate'
    /\ pc' = "estimated"
    /\ UNCHANGED <<cleanVars, sicVars, aux, coeff_indices, wicVars, idxVars>>

\* lines 243-245
MainExtent ==
    /\ pc = "estimated"
    /\ field' = [p \in Pixels |-> ExtentMasked(field[p], aux.extent_mask[p])]
    /\ pc' = "extent_masked"
    /\ UNCHANGED <<cleanVars, sicVars, aux, coeff_indices, estimate, wicVars, idxVars>>

\* lines 253-254, and the field save_sic writes
MainLand ==
    /\ pc = "extent_masked"
    /\ field' = [p \in Pixels |-> apply_mask(aux.land_mask[p], field[p])]
    /\ pc' = "written"
    /\ UNCHANGED <<cleanVars, sicVars, aux, coeff_indices, estimate, wicVars, idxVars>>

NextMain ==
    \/ MainIndices
    \/ MainClean
    \/ MainComputeSic
    \/ MainExtent
    \/ MainLand

SpecMain == InitMain /\ [][NextMain]_vars

(***************************************************************************)
(* calc_wic_prob_day_twi.  A Gaussian likelihood is kept as the term it is *)
(* built from: the feature it is evaluated at and the two cells of the     *)
(* coefficient table it takes as mean and standard deviation.  A posterior *)
(* is kept as the list of likelihoods multiplied into its numerator.       *)
(***************************************************************************)
WicPixels == 1..NWic

\* lines 276-280: a band is masked where its value is negative
Band(v) == [data |-> QInt(v), mask |-> v < 0]

A06(b) == Band(b.vis06)
A09(b) == Band(b.vis09)
A16(b) == Band(b.vis16)
T37(b) == Band(b.tb37)
T11(b) == Band(b.tb11)

\* lines 286-287
WicSOZ(b) == Trunc(b.soz)

WicIndex_OpenRange(b) ==
    IF WicSOZ(b) > SOZ_LOWLIM /\ WicSOZ(b) < SOZ_HIGHLIM THEN WicSOZ(b) ELSE 0

WicIndex(b) == CoeffIndex(WicSOZ(b))

\* comparisons of a masked array with a number: computed on the data, the
\* mask kept
MaGt(a, c) == [data |-> QLt(c, a.data), mask |-> a.mask]

MaLt(a, c) == [data |-> QLt(a.data, c), mask |-> a.mask]

MaLe(a, c) == [data |-> QLe(a.data, c), mask |-> a.mask]

PlainB(x) == [data |-> x, mask |-> FALSE]

\* a * b and a *= b on boolean masked arrays: where either is masked the
\* result is masked and its data is the first operand's
MaAnd(a, b) ==
    IF a.mask \/ b.mask THEN [data |-> a.data, mask |-> TRUE]
    ELSE [data |-> a.data /\ b.data, mask |-> FALSE]

\* a + b on boolean masked arrays
MaOr(a, b) ==
    IF a.mask \/ b.mask THEN [data |-> a.data, mask |-> TRUE]
    ELSE [data |-> a.data \/ b.data, mask |-> FALSE]

\* np.invert: the data is inverted under the mask too
MaInvert(a) == [data |-> ~a.data, mask |-> a.mask]

Eps == <<1, 100000>>

\* (SOZ > SOZ_LOWLIM) * (SOZ < SOZ_HIGHLIM)
SunUp(b) == PlainB(WicSOZ(b) > SOZ_LOWLIM /\ WicSOZ(b) < SOZ_HIGHLIM)

\* lines 294-295
useA16(b) ==
    MaAnd(MaAnd(MaGt(A16(b), Eps), MaLe(A16(b), QInt(ReflMax))), SunUp(b))

\* lines 296-298
useT37(b) ==
    LET t1 == MaAnd(MaInvert(useA16(b)), MaGt(T37(b), QInt(TbMin)))
        t2 == MaAnd(t1, MaAnd(MaLt(T37(b), QInt(TbMax)), MaGt(T11(b), QInt(TbMin))))
    IN  MaAnd(t2, MaAnd(MaLt(T11(b), QInt(TbMax)), SunUp(b)))

\* line 415
useVAR3(b) == MaOr(useA16(b), useT37(b))

\* masked_array.any(): masked entries count as False
AnyTrue(gate) == \E p \in DOMAIN gate : ~gate[p].mask /\ gate[p].data

\* the mask of a quotient x / A06
OverA06(x, b) == x.mask \/ A06(b).mask \/ A06(b).data = QInt(0)

\* lines 301, 303, 318-334: the features and their masks (the 3.7 micron
\* proxy is taken to fall inside [0, 1])
Feature(name, b) ==
    [name |-> name,
     mask |-> CASE name = "A0906" -> OverA06(A09(b), b)
                [] name = "A06"   -> A06(b).mask
                [] name = "A1606" -> OverA06(A16(b), b)
                [] name = "A3706" -> T37(b).mask \/ T11(b).mask \/ OverA06(PlainB(TRUE), b)]

\* read_coeffs_from_file, lines 483-489: one table row per variable and
\* surface, 91 angle bins of (angle, mean, std)
Cell(var, wic, bin, col) == [var |-> var, wic |-> wic, bin |-> bin, col |-> col]

\* lines 462-472: the rows of a variable are taken in file order (cloud, sea,
\* ice, snow, land) and gathered at each pixel's angle bin
get_coeffs_for_var(var, bin) ==
    [cloud_mean |-> Cell(var, "cloud", bin, 1), cloud_std |-> Cell(var, "cloud", bin, 2),
     sea_mean   |-> Cell(var, "sea", bin, 1),   sea_std   |-> Cell(var, "sea", bin, 2),
     ice_mean   |-> Cell(var, "ice", bin, 1),   ice_std   |-> Cell(var, "ice", bin, 2)]

\* lines 498-508
normalpdf(x, mu, sigma) == [x |-> x.name, mu |-> mu, sigma |-> sigma, mask |-> x.mask]

\* lines 344-350
pVAR1(b) ==
    LET k == get_coeffs_for_var("re09/re06", WicIndex(b))
        x == Feature("A0906", b)
    IN  [gc |-> normalpdf(x, k.cloud_mean, k.cloud_std),
         gw |-> normalpdf(x, k.sea_mean, k.sea_std),
         gi |-> normalpdf(x, k.ice_mean, k.ice_std)]

\* lines 352-371
pVAR2(b) ==
    LET k == get_coeffs_for_var("re06", WicIndex(b))
        x == Feature("A06", b)
    IN  [gc |-> normalpdf(x, k.cloud_mean, k.cloud_std),
         gw |-> normalpdf(x, k.sea_mean, k.sea_std),
         gi |-> normalpdf(x, k.ice_mean, k.ice_std)]

\* lines 375-382
pA1606(b) ==
    LET k == get_coeffs_for_var("re16/re06", WicIndex(b))
        x == Feature("A1606", b)
    IN  [gc |-> normalpdf(x, k.cloud_mean, k.cloud_std),
         gw |-> normalpdf(x, k.sea_mean, k.sea_std),
         gi |-> normalpdf(x, k.ice_mean, k.ice_std)]

\* lines 385-393
pT3711(b) ==
    LET k == get_coeffs_for_var("re37/re06", WicIndex(b))
        x == Feature("A3706", b)
    IN  [gc |-> normalpdf(x, k.ice_mean, k.ice_std),
         gw |-> normalpdf(x, k.cloud_mean, k.cloud_std),
         gi |-> normalpdf(x, k.sea_mean, k.sea_std)]

\* lines 398-413: the thermal likelihoods, overwritten by the re16/re06 ones
\* where useA16 holds; the re16/re06 ones alone when no pixel has useT37
pVAR3(B, p) ==
    IF AnyTrue([q \in WicPixels |-> useT37(B[q])])
    THEN IF AnyTrue([q \in WicPixels |-> useA16(B[q])]) /\ useA16(B[p]).data THEN pA1606(B[p])
         ELSE pT3711(B[p])
    ELSE pA1606(B[p])

anyVAR3(B) == AnyTrue([q \in WicPixels |-> useT37(B[q])]) \/ AnyTrue([q \in WicPixels |-> useA16(B[q])])

\* lines 423-426 and 437-440: the numerator of one class's posterior
Posterior(terms) ==
    [terms    |-> terms,
     mask     |-> \E i \in 1..Len(terms) : terms[i].mask,
     sentinel |-> FALSE]

StageA(b, c) == Posterior(<<pVAR1(b)[c], pVAR2(b)[c]>>)

StageB(B, p, c) == Posterior(<<pVAR1(B[p])[c], pVAR2(B[p])[c], pVAR3(B, p)[c]>>)

Fused(B, p, c) ==
    IF anyVAR3(B) /\ useVAR3(B[p]).data THEN StageB(B, p, c) ELSE StageA(B[p], c)

\* line 449: (p > 1.0) and (p < 0.0) are computed on the data and keep the
\* mask; the data under the mask is a likelihood left there by the masked
\* products, so it is never negative and may exceed 1
AboveOne(B, p, c) ==
    [data |-> c \in B[p].above_one, mask |-> Fused(B, p, c).mask]

BelowZero(B, p, c) == [data |-> FALSE, mask |-> Fused(B, p, c).mask]

OutOfRange(B, p, c) == MaAnd(AboveOne(B, p, c), BelowZero(B, p, c))

\* ma.is_masked(A06): one truth value for the whole grid
is_masked_A06(B) == \E q \in WicPixels : A06(B[q]).mask

\* lines 449-452, as an index: the data of the product
falsevalue(B, p) ==
    LET w == OutOfRange(B, p, "gw")
        i == MaAnd(w, OutOfRange(B, p, "gi"))
        c == MaAnd(i, OutOfRange(B, p, "gc"))
    IN  MaAnd(c, PlainB(is_masked_A06(B))).data

\* lines 454-456
Gated(B, p, c) ==
    IF falsevalue(B, p) THEN [terms |-> <<>>, mask |-> FALSE, sentinel |-> TRUE]
    ELSE Fused(B, p, c)

\* lines 265-458: (pigobs, pcgobs, pwgobs)
calc_wic_prob_day_twi(B) ==
    [p \in WicPixels |->
        [pigobs |-> Gated(B, p, "gi"),
         pcgobs |-> Gated(B, p, "gc"),
         pwgobs |-> Gated(B, p, "gw")]]

(***************************************************************************)
(* Inputs of the classifier.                                               *)
(***************************************************************************)
\* above_one: the classes whose grid holds a number above 1 at the pixel
\* before the quality check; a valid posterior is a share of a sum of
\* non-negative terms, so this happens only under the mask
SwathPixels ==
    {b \in [vis06 : {-1, 40},
            vis09 : {35},
            vis16 : {-1, 0, 30},
            tb37  : {-1, 270},
            tb11  : {260},
            soz   : {<<91, 2>>, QInt(95)},
            above_one : SUBSET {"gi", "gw", "gc"}] :
        b.above_one # {} => b.vis06 < 0}

InitWic ==
    /\ pc = "swath"
    /\ bands \in [WicPixels -> SwathPixels]
    /\ probs = None
    /\ cloudmask = None
    /\ lats = None
    /\ cleaned = None
    /\ recleaned = None
    /\ px = None
    /\ sic = None
    /\ aux = None
    /\ coeff_indices = None
    /\ estimate = None
    /\ field = None
    /\ angle = None
    /\ index = None

\* line 222 (commented out in main)
Classify ==
    /\ pc = "swath"
    /\ probs' = calc_wic_prob_day_twi(bands)
    /\ pc' = "classified"
    /\ UNCHANGED <<bands, cleanVars, sicVars, mainVars, idxVars>>

NextWic == Classify

SpecWic == InitWic /\ [][NextWic]_vars

(***************************************************************************)
(* The coefficient-table index of one pixel, as main and as                *)
(* calc_wic_prob_day_twi compute it.                                       *)
(***************************************************************************)
\* main, lines 234-235
MainIndex(soz) == CoeffIndex(Trunc(soz))

\* angles in half degrees, from below zero to beyond the table
AngleVals == {QNorm(<<k, 2>>) : k \in (-6)..(2 * MaxAngle)}

InitIndex ==
    /\ pc = "angle"
    /\ angle \in AngleVals
    /\ index = <<>>
    /\ cloudmask = None
    /\ lats = None
    /\ cleaned = None
    /\ recleaned = None
    /\ px = None
    /\ sic = None
    /\ aux = None
    /\ coeff_indices = None
    /\ estimate = None
    /\ field = None
    /\ bands = None
    /\ probs = None

\* main, lines 231-235
DriverIndex ==
    /\ pc = "angle"
    /\ "main" \notin DOMAIN index
    /\ index' = index @@ ("main" :> MainIndex(angle))
    /\ UNCHANGED <<pc, angle, cleanVars, sicVars, mainVars, wicVars>>

\* calc_wic_prob_day_twi, lines 281-287
ClassifierIndex ==
    /\ pc = "angle"
    /\ "calc_wic_prob_day_twi" \notin DOMAIN index
    /\ index' = index @@ ("calc_wic_prob_day_twi" :> WicIndex([soz |-> angle]))
    /\ UNCHANGED <<pc, angle, cleanVars, sicVars, mainVars, wicVars>>

NextIndex == DriverIndex \/ ClassifierIndex

SpecIndex == InitIndex /\ [][NextIndex]_vars

(***************************************************************************)
(* Connected components, stated on their own: the partition of a pixel set *)
(* into maximal sets linked by shared edges.                               *)
(***************************************************************************)
Touch(p, q) ==
    \/ p[1] = q[1] /\ (p[2] = q[2] + 1 \/ q[2] = p[2] + 1)
    \/ p[2] = q[2] /\ (p[1] = q[1] + 1 \/ q[1] = p[1] + 1)

RECURSIVE Closure(_, _)
Closure(S, W) ==
    LET T == S \cup {q \in W : \E s \in S : Touch(s, q)}
    IN  IF T = S THEN S ELSE Closure(T, W)

RECURSIVE Components(_)
Components(W) ==
    IF W = {} THEN {}
    ELSE LET p == CHOOSE x \in W : TRUE
             C == Closure({p}, W)
         IN  {C} \cup Components(W \ C)

\* water (class 1), valid, above latitude 80
Water80(cm) == {p \in Pixels : ~cm[p].mask /\ cm[p].data = 1 /\ lats[p] > 80}

BigBlobPixels(cm) == UNION {C \in Components(Water80(cm)) : Cardinality(C) > 10}

Diagonal(p, q) == Abs(p[1] - q[1]) = 1 /\ Abs(p[2] - q[2]) = 1

\* C1: after clean_up_cloudmask a pixel is reset to 0 (not processed) exactly
\* when it lies in a maximal connected component of more than 10 valid water
\* pixels above latitude 80; every other pixel keeps its input value, and every
\* pixel keeps its input mask flag.
C1_CleanRemovesExactlyBigBlobs ==
    pc \in {"cleaned", "recleaned"} =>
        LET big == BigBlobPixels(cloudmask)
        IN  \A p \in Pixels :
               /\ cleaned[p].mask = cloudmask[p].mask
               /\ p \in big => cleaned[p].data = 0
               /\ p \notin big => cleaned[p].data = cloudmask[p].data

\* a blob was zeroed while a water pixel touching it only by a corner was kept
C1_Witness ==
    /\ pc = "cleaned"
    /\ \E p, q \in Pixels :
          /\ Diagonal(p, q)
          /\ p \in Water80(cloudmask) /\ cleaned[p].data = 0
          /\ q \in Water80(cloudmask) /\ cleaned[q].data = 1

\* C2: cleaning the cleaner's output changes nothing, and the output has no
\* connected component of more than 10 valid water pixels above latitude 80.
C2_CleanIdempotent ==
    /\ pc = "recleaned" => recleaned = cleaned
    /\ pc \in {"cleaned", "recleaned"} =>
          \A C \in Components(Water80(cleaned)) : Cardinality(C) <= 10

\* the second pass ran on a grid whose first pass zeroed a blob and kept another
C2_Witness ==
    /\ pc = "recleaned"
    /\ \E p \in Pixels : cloudmask[p].data = 1 /\ cleaned[p].data = 0
    /\ Water80(cleaned) # {}

(***************************************************************************)
(* The estimator's contract, stated on the pixel's inputs.                 *)
(***************************************************************************)
FiniteCoeffs(p) == ~IsNaN(p.mean) /\ ~IsNaN(p.std)

\* ice_std, replaced by ice_mean/3 when ice_std >= ice_mean
CorrectedStd(p) ==
    IF QLe(p.mean, p.std) THEN QDiv(p.mean, QInt(3)) ELSE p.std

\* ice_mean - ice_std/2
Anchor(p) == QSub(p.mean, QDiv(CorrectedStd(p), QInt(2)))

QMin(a, b) == IF QLt(b, a) THEN b ELSE a

\* min(100, 100 * reflectance / (ice_mean - ice_std/2))
ExpectedSic(p) == QMin(QInt(100), QDiv(QMul(QInt(100), p.data), Anchor(p)))

BelowThreshold(p) == QLe(p.data, QInt(3))

WaterOverride(p) == ~p.cm.mask /\ p.cm.data = 1 /\ QLt(p.data, QInt(5))

AmbiguousReflectance(p) ==
    /\ FiniteCoeffs(p)
    /\ QLt(QInt(3), p.data)
    /\ QLt(p.data, QDiv(CorrectedStd(p), QInt(2)))

C4_ValueFormula ==
    (/\ pc = "sic"
     /\ FiniteCoeffs(px) /\ px.mean # QInt(0) /\ Anchor(px)[1] # 0
     /\ ~BelowThreshold(px) /\ ~WaterOverride(px)
     /\ ~sic.mask) => QEq(sic.data, ExpectedSic(px))

\* reflectance 50, ice_mean 60, ice_std 6, class 1, zenith 45: 100*50/57
C4_Witness ==
    /\ pc = "sic"
    /\ px = [data |-> <<50, 1>>, cm |-> [data |-> 1, mask |-> FALSE],
             soz |-> 45, mean |-> QInt(60), std |-> QInt(6)]
    /\ sic = [data |-> <<5000, 57>>, mask |-> FALSE]

\* C5: the value is 0 wherever reflectance <= 3 or the water override holds
\* (class 1 and reflectance < 5), whatever the coefficients.
C5_ZeroedWater ==
    (pc = "sic" /\ (BelowThreshold(px) \/ WaterOverride(px))) => sic.data = QInt(0)

\* class 1, reflectance 4 (above the threshold, inside the widened band), a
\* ratio of 100*4/5 = 80, returned as a valid 0
C5_Witness ==
    /\ pc = "sic"
    /\ px.data = <<4, 1>> /\ px.cm = [data |-> 1, mask |-> FALSE]
    /\ px.mean = QInt(6) /\ px.std = QInt(2)
    /\ sic = [data |-> QInt(0), mask |-> FALSE]

\* the value compute_sic returns for this pixel with another reflectance
ValueAt(r) == compute_sic([px EXCEPT !.data = r]).data

PositiveMean(p) == ~IsNaN(p.mean) /\ QLt(QInt(0), p.mean)

PositiveStd(p) == ~IsNaN(p.std) /\ QLt(QInt(0), p.std)

\* C6, as claimed (read for positive coefficients): for fixed coefficients,
\* class and mask, r1 < r2 both above 3 and both giving a value below 100 give
\* strictly increasing values.
C6_StrictlyMonotone ==
    (pc = "sic" /\ PositiveMean(px) /\ PositiveStd(px)) =>
        \A r2 \in ReflVals :
            (/\ QLt(QInt(3), px.data) /\ QLt(px.data, r2)
             /\ QLt(sic.data, QInt(100)) /\ QLt(ValueAt(r2), QInt(100)))
            => QLt(sic.data, ValueAt(r2))

\* C6, amended: the same, for a positive ice_mean and two reflectances that
\* the water override (class 1 and reflectance < 5) does not zero.
C6_StrictlyMonotoneOutsideOverride ==
    pc = "sic" =>
        \A r2 \in ReflVals :
            (/\ QLt(QInt(3), px.data) /\ QLt(px.data, r2)
             /\ QLt(sic.data, QInt(100)) /\ QLt(ValueAt(r2), QInt(100))
             /\ PositiveMean(px)
             /\ ~WaterOverride(px)
             /\ ~WaterOverride([px EXCEPT !.data = r2]))
            => QLt(sic.data, ValueAt(r2))

\* two reflectances above the threshold and below the clamp, told apart
C6_Witness ==
    /\ pc = "sic"
    /\ PositiveMean(px) /\ ~WaterOverride(px)
    /\ QLt(QInt(3), px.data)
    /\ \E r2 \in ReflVals :
          /\ QLt(px.data, r2)
          /\ QLt(QInt(0), sic.data)
          /\ QLt(sic.data, ValueAt(r2))
          /\ QLt(ValueAt(r2), QInt(100))

InRange(v) == QLe(QInt(0), v) /\ QLe(v, QInt(100))

\* C8, as claimed: every valid entry is in [0, 100], whatever the reflectance,
\* the class and the coefficients.
C8_ValidInRange == (pc = "sic" /\ ~sic.mask) => InRange(sic.data)

\* C8, amended: the same, for an ice_mean that is not negative.
C8_ValidInRangeNonNegativeMean ==
    (/\ pc = "sic"
     /\ ~sic.mask
     /\ (IsNaN(px.mean) \/ QLe(QInt(0), px.mean))) => InRange(sic.data)

\* ice_std >= ice_mean > 0: the corrected anchor gives a raw value above 100,
\* returned as a valid 100
C8_Witness ==
    /\ pc = "sic"
    /\ ~sic.mask
    /\ PositiveMean(px) /\ FiniteCoeffs(px) /\ QLe(px.mean, px.std)
    /\ QLt(QInt(100), QDiv(QMul(QInt(100), px.data), Anchor(px)))
    /\ sic.data = QInt(100)

MissingCoeff(c) == IsNaN(c) \/ c = QInt(0)

\* C9: a pixel whose looked-up ice_mean or ice_std is 0 or non-finite is
\* masked in the returned field, so that no value computed from a missing
\* coefficient is returned as valid (read for a pixel that is not zeroed as
\* water and whose other coefficient is a positive number).
C9_MissingCoefficientMasked ==
    (/\ pc = "sic"
     /\ ~BelowThreshold(px) /\ ~WaterOverride(px)
     /\ \/ MissingCoeff(px.mean) /\ PositiveStd(px)
        \/ MissingCoeff(px.std) /\ PositiveMean(px)) => sic.mask

Land(p) == aux.land_mask[p]

InExtent(p) == aux.extent_mask[p]

TableRow(c) == CASE c = "gi" -> "ice" [] c = "gw" -> "sea" [] c = "gc" -> "cloud"

FeatureVar(x) ==
    CASE x = "A0906" -> "re09/re06"
      [] x = "A06"   -> "re06"
      [] x = "A1606" -> "re16/re06"
      [] x = "A3706" -> "re37/re06"

OwnCoefficients(t, c, bin) ==
    /\ t.mu = Cell(FeatureVar(t.x), TableRow(c), bin, 1)
    /\ t.sigma = Cell(FeatureVar(t.x), TableRow(c), bin, 2)

TermsOf(q) == {q.terms[i] : i \in 1..Len(q.terms)}

\* C10: every likelihood that enters a class's posterior is the Gaussian of
\* that class's own mean and standard deviation, for the feature's variable
\* and the pixel's angle bin (stated at the pixels whose posteriors are valid).
C10_OwnClassCoefficients ==
    pc = "classified" =>
        \A p \in WicPixels :
            LET bin == WicIndex(bands[p])
            IN  ~probs[p].pigobs.mask =>
                /\ \A t \in TermsOf(probs[p].pigobs) : OwnCoefficients(t, "gi", bin)
                /\ \A t \in TermsOf(probs[p].pwgobs) : OwnCoefficients(t, "gw", bin)
                /\ \A t \in TermsOf(probs[p].pcgobs) : OwnCoefficients(t, "gc", bin)

WicClasses == {"gi", "gw", "gc"}

GridOf3(c) == CASE c = "gi" -> "pigobs" [] c = "gw" -> "pwgobs" [] c = "gc" -> "pcgobs"

HoldsSentinel(p, c) == probs[p][GridOf3(c)].sentinel

\* the quality gate in the words of the specification: the posterior of every
\* class is outside [0,1] at the pixel and the 0.6 micron channel is masked
QualityGateFlags(p) ==
    /\ \A c \in WicClasses : c \in bands[p].above_one
    /\ A06(bands[p]).mask

\* C11: at every pixel the three grids hold the sentinel together or not at
\* all, and they hold it exactly at the pixels the quality gate flags.
C11_SentinelAllOrNothing ==
    pc = "classified" =>
        \A p \in WicPixels :
            /\ \/ \A c \in WicClasses : HoldsSentinel(p, c)
               \/ \A c \in WicClasses : ~HoldsSentinel(p, c)
            /\ HoldsSentinel(p, "gw") <=> QualityGateFlags(p)

\* the availability gates in the words of the specification
AngleInRange(b) == WicSOZ(b) > SOZ_LOWLIM /\ WicSOZ(b) < SOZ_HIGHLIM

use_ratio16(b) ==
    /\ QLt(Eps, QInt(b.vis16)) /\ b.vis16 <= ReflMax
    /\ AngleInRange(b)

use_thermal(b) ==
    /\ ~use_ratio16(b)
    /\ b.tb37 > TbMin /\ b.tb37 < TbMax
    /\ b.tb11 > TbMin /\ b.tb11 < TbMax
    /\ AngleInRange(b)

ThirdFeature(q, x) == Len(q.terms) = 3 /\ q.terms[3].x = x

\* C12: where use_ratio16 holds the third likelihood is the re16/re06 one,
\* elsewhere where use_thermal holds it is the thermal-proxy one, and a pixel
\* with neither keeps its two-feature posterior (stated at the pixels whose
\* posteriors are valid).
C12_ThirdFeaturePriority ==
    pc = "classified" =>
        \A p \in WicPixels : \A c \in WicClasses :
            LET q == probs[p][GridOf3(c)]
                b == bands[p]
            IN  ~q.mask /\ ~q.sentinel =>
                /\ use_ratio16(b) => ThirdFeature(q, "A1606")
                /\ ~use_ratio16(b) /\ use_thermal(b) => ThirdFeature(q, "A3706")
                /\ ~use_ratio16(b) /\ ~use_thermal(b) => q = StageA(b, c)

\* the table's angle bins (91 rows)
TableBins == 0..90

\* the whole degrees of an angle: its fraction dropped, toward zero
WholeDegrees(a) ==
    CHOOSE n \in (-MaxAngle - 3)..(MaxAngle + 3) :
        IF QLe(QInt(0), a) THEN QLe(QInt(n), a) /\ QLt(a, QInt(n + 1))
        ELSE QLt(QInt(n - 1), a) /\ QLe(a, QInt(n))

ExpectedIndex(a) ==
    IF WholeDegrees(a) >= 0 /\ WholeDegrees(a) <= 89 THEN WholeDegrees(a) ELSE 0

\* C13: every index computed for a pixel is its angle's whole degrees when
\* these are in [0,89] and 0 otherwise, lies in [0,89] and in the table's bins,
\* and main and calc_wic_prob_day_twi give the same index.
C13_IndexRule ==
    pc = "angle" =>
        /\ \A f \in DOMAIN index :
            /\ index[f] = ExpectedIndex(angle)
            /\ index[f] \in 0..89
            /\ index[f] \in TableBins
        /\ \A f, g \in DOMAIN index : index[f] = index[g]

\* both have indexed a pixel whose angle has a fraction and lies above 89
C13_Witness ==
    /\ pc = "angle"
    /\ DOMAIN index = {"main", "calc_wic_prob_day_twi"}
    /\ angle = <<179, 2>>
    /\ index["main"] = 89

====
